---- MODULE Spec2Model ----
(***************************************************************************)
(* The log retrieval pipeline of src/src: the corpus loader and index      *)
(* builder (index_logs.py) and the query engine (assist_query.py), over    *)
(* the corpus file and the three artifact files they share; the two corpus *)
(* utilities check_logs.py and fix_bom.py; and the ModelManager and the    *)
(* UnifiedPredictor of the model service (model.py, unified_predictor.py   *)
(* under autoops/services/model_service/app/model).                        *)
(*                                                                         *)
(* Strings that the code only copies are kept as strings.  A text produced *)
(* by an f-string is the sequence of its pieces, in order.  A tf-idf       *)
(* weight is abstracted to the term's count in the document: it is         *)
(* non-zero exactly where the count is.                                    *)
(***************************************************************************)
EXTENDS Integers, Sequences, FiniteSets, TLC

\* ------------------------------------------------------------------ bounds

\* longest corpus file drawn as the initial log file, in lines
MaxLines == 2
\* largest top_k a caller passes
MaxK == 2
\* most records of an index that top_k_evidence is applied to on its own
MaxN == 3

\* most byte units of a file fix_bom.py is run on
MaxBytes == 3
\* most runs of fix_bom.py on one file
MaxRuns == 2

\* ------------------------------------------------------------- python data

\* Python's None
None == "<None>"
\* a key a JSON object does not have
Absent == "<absent>"
\* a path at which no file exists
NoFile == [fmt |-> "<nofile>", data |-> <<>>]

Keys == {"ts", "service", "level", "msg", "host"}

\* A parsed JSON object: every key of Keys mapped to its value, or to Absent.
EmptyObj == [k \in Keys |-> Absent]

ObjA == [ts |-> "t1", service |-> "api", level |-> "error", msg |-> "timeout", host |-> "h1"]
ObjP == [ts |-> Absent, service |-> "db", level |-> Absent, msg |-> "timeout", host |-> Absent]
ObjE == [ts |-> Absent, service |-> Absent, level |-> "", msg |-> "", host |-> Absent]

\* One physical line of the corpus file.  kind "blank": empty after strip();
\* "bad": json.loads raises; "scalar": valid JSON that is not an object (42);
\* "obj": a JSON object.
BlankLine == [kind |-> "blank", obj |-> EmptyObj]
BadLine == [kind |-> "bad", obj |-> EmptyObj]
ScalarLine == [kind |-> "scalar", obj |-> EmptyObj]
ObjLine(o) == [kind |-> "obj", obj |-> o]

Lines == {BlankLine, BadLine, ScalarLine, ObjLine(ObjA), ObjLine(ObjP), ObjLine(ObjE)}

RECURSIVE SeqsUpTo(_, _)
SeqsUpTo(S, n) ==
    IF n = 0 THEN {<<>>}
    ELSE LET shorter == SeqsUpTo(S, n - 1)
         IN shorter \cup {Append(s, x) : s \in {t \in shorter : Len(t) = n - 1}, x \in S}

Corpora == SeqsUpTo(Lines, MaxLines)

\* ------------------------------------------------------- index_logs.py: load

\* dict.get(key, default)
Get(j, k, default) == IF j[k] = Absent THEN default ELSE j[k]

\* str() as an f-string field applies it
PyStr(v) == IF v = None THEN "None" ELSE v

\* every key of the record rendered into the text
RenderText_WithHost(j) ==
    << PyStr(Get(j, "ts", "")), "\n[", PyStr(Get(j, "service", "")), "] ",
       PyStr(Get(j, "level", None)), ": ", PyStr(Get(j, "msg", None)),
       PyStr(Get(j, "host", "")) >>

\* line 21: f"{j.get('ts','')}\n[{j.get('service','')}] {j.get('level')}: {j.get('msg')}"
RenderText(j) ==
    << PyStr(Get(j, "ts", "")), "\n[", PyStr(Get(j, "service", "")), "] ",
       PyStr(Get(j, "level", None)), ": ", PyStr(Get(j, "msg", None)) >>

\* line 22: the item appended for line number i (enumerate counts from 0)
MakeItem(i, j) == [id |-> <<"log_", i>>, text |-> RenderText(j), meta |-> j]

\* lines 16-24 on one line: does the try block append an item?  json.loads
\* raises on a malformed line; j.get raises AttributeError on a non-object;
\* both are caught by "except Exception".
YieldsItem(line) ==
    /\ line.kind # "blank"
    /\ line.kind # "bad"
    /\ line.kind # "scalar"

\* the try around the whole loop: the first line that raises ends the load
RECURSIVE LoadFrom_AbortOnError(_, _)
LoadFrom_AbortOnError(f, i) ==
    IF i >= Len(f) THEN <<>>
    ELSE IF f[i + 1].kind = "blank" THEN LoadFrom_AbortOnError(f, i + 1)
    ELSE IF YieldsItem(f[i + 1])
         THEN <<MakeItem(i, f[i + 1].obj)>> \o LoadFrom_AbortOnError(f, i + 1)
         ELSE <<>>

\* a record numbered by its rank among the records, not by its line
RECURSIVE LoadFrom_RecordOrdinal(_, _)
LoadFrom_RecordOrdinal(f, i) ==
    IF i >= Len(f) THEN <<>>
    ELSE IF YieldsItem(f[i + 1])
         THEN <<MakeItem(Cardinality({n \in 1..i : YieldsItem(f[n])}), f[i + 1].obj)>>
                  \o LoadFrom_RecordOrdinal(f, i + 1)
         ELSE LoadFrom_RecordOrdinal(f, i + 1)

RECURSIVE LoadFrom(_, _)
LoadFrom(f, i) ==
    IF i >= Len(f) THEN <<>>
    ELSE IF YieldsItem(f[i + 1])
         THEN <<MakeItem(i, f[i + 1].obj)>> \o LoadFrom(f, i + 1)
         ELSE LoadFrom(f, i + 1)

load_logs(f) == LoadFrom(f, 0)

\* ------------------------------------------------------ index_logs.py: build

\* TfidfVectorizer's analyzer on one piece of a text: lowercase, then
\* token_pattern \b\w\w+\b.  The pieces "\n[", "] ", ": " and "" hold no token;
\* a field value of the model is one word of two or more characters.
Lower(w) == IF w = "None" THEN "none" ELSE w

\* the words of the model, in the order Python sorts them
WordOrder == <<"api", "db", "error", "none", "t1", "timeout">>

Words == {WordOrder[i] : i \in 1..Len(WordOrder)}

RECURSIVE Tokens(_)
Tokens(text) ==
    IF text = <<>> THEN <<>>
    ELSE IF Lower(Head(text)) \in Words
         THEN <<Lower(Head(text))>> \o Tokens(Tail(text))
         ELSE Tokens(Tail(text))

\* ngram_range=(1,2): the unigrams, then the bigrams of adjacent tokens
Ngrams(toks) ==
    [i \in 1..Len(toks) |-> <<toks[i]>>]
        \o [i \in 1..(IF Len(toks) = 0 THEN 0 ELSE Len(toks) - 1) |-> <<toks[i], toks[i + 1]>>]

DocTerms(text) == Ngrams(Tokens(text))

Range(s) == {s[i] : i \in 1..Len(s)}

CountIn(t, s) == Cardinality({i \in 1..Len(s) : s[i] = t})

WordRank(w) == CHOOSE i \in 1..Len(WordOrder) : WordOrder[i] = w

\* the order of the feature names "w" and "w1 w2" as Python strings
TermLess(a, b) ==
    \/ WordRank(a[1]) < WordRank(b[1])
    \/ /\ a[1] = b[1]
       /\ \/ Len(a) < Len(b)
          \/ Len(a) = 2 /\ Len(b) = 2 /\ WordRank(a[2]) < WordRank(b[2])

RECURSIVE SortTerms(_)
SortTerms(S) ==
    IF S = {} THEN <<>>
    ELSE LET m == CHOOSE x \in S : \A y \in S \ {x} : TermLess(x, y)
         IN <<m>> \o SortTerms(S \ {m})

\* line 29
max_features == 2048

\* CountVectorizer._limit_features: keep the max_features terms of highest
\* total count (argsort of the negated counts), the rest are dropped
LimitFeatures(S, texts) ==
    IF Cardinality(S) <= max_features THEN S
    ELSE LET total(t) == LET RECURSIVE Sum(_)
                             Sum(i) == IF i = 0 THEN 0
                                       ELSE CountIn(t, DocTerms(texts[i])) + Sum(i - 1)
                         IN Sum(Len(texts))
         IN CHOOSE T \in SUBSET S :
                /\ Cardinality(T) = max_features
                /\ \A t \in T, u \in S \ T : total(t) >= total(u)

\* the fitted vocabulary: the distinct terms of all texts, sorted
FitVocabulary(texts) ==
    SortTerms(LimitFeatures(UNION {Range(DocTerms(texts[i])) : i \in 1..Len(texts)}, texts))

\* one row of the document-term matrix over a vocabulary
Row(text, vocab) == [c \in 1..Len(vocab) |-> CountIn(vocab[c], DocTerms(text))]

\* lines 27-31.  fit_transform raises ValueError ("empty vocabulary") when
\* no text holds a token: raises is TRUE then and nothing is returned.
build_tfidf(items) ==
    LET texts == [i \in 1..Len(items) |-> items[i].text]
        vocab == FitVocabulary(texts)
    IN [raises |-> vocab = <<>>,
        vec |-> [vocabulary |-> vocab, fitted |-> TRUE],
        arr |-> [i \in 1..Len(texts) |-> Row(texts[i], vocab)]]

\* ------------------------------------------------------------ artifact files

ArtifactNames == {"emb", "meta", "vocab"}

NoFiles == [emb |-> NoFile, meta |-> NoFile, vocab |-> NoFile]

\* np.save / np.load of an array
NpySave(a) == [fmt |-> "npy", data |-> a]

NpyLoad(f) == f.data

\* JSON's null
JNull == "<null>"

JsonEncodeObj(j) == [k \in Keys |-> IF j[k] = None THEN JNull ELSE j[k]]

JsonDecodeObj(j) == [k \in Keys |-> IF j[k] = JNull THEN None ELSE j[k]]

\* json.dump / json.load of the metadata list
JsonDump(metas) ==
    [fmt |-> "json",
     data |-> [i \in 1..Len(metas) |->
                 [id |-> metas[i].id, text |-> metas[i].text,
                  meta |-> JsonEncodeObj(metas[i].meta)]]]

JsonLoad(f) ==
    [i \in 1..Len(f.data) |->
        [id |-> f.data[i].id, text |-> f.data[i].text,
         meta |-> JsonDecodeObj(f.data[i].meta)]]

\* the metadata written newest first
MetasOf_Reversed(items) ==
    [i \in 1..Len(items) |->
        [id |-> items[Len(items) + 1 - i].id, text |-> items[Len(items) + 1 - i].text,
         meta |-> items[Len(items) + 1 - i].meta]]

\* line 36
MetasOf(items) ==
    [i \in 1..Len(items) |-> [id |-> items[i].id, text |-> items[i].text, meta |-> items[i].meta]]

\* the feature names listed last to first
get_feature_names_out_Reversed(vec) ==
    [i \in 1..Len(vec.vocabulary) |-> vec.vocabulary[Len(vec.vocabulary) + 1 - i]]

\* line 40
get_feature_names_out(vec) == vec.vocabulary

\* ----------------------------------------------------- assist_query.py

\* the test of the vocabulary file left out
IndexPresent_SkipVocab(fs) == fs.emb # NoFile /\ fs.meta # NoFile

\* line 13: the three os.path.exists tests
IndexPresent(fs) == fs.emb # NoFile /\ fs.meta # NoFile /\ fs.vocab # NoFile

\* lines 15-17 read emb, meta, vocab in this order; opening a missing file
\* raises FileNotFoundError: the files read before that
ReadBeforeFailure(fs) ==
    IF fs.emb = NoFile THEN {}
    ELSE IF fs.meta = NoFile THEN {"emb"}
    ELSE IF fs.vocab = NoFile THEN {"emb", "meta"}
    ELSE ArtifactNames

\* lines 15-20.  TfidfVectorizer(vocabulary=...) is constructed and never
\* fitted: it has the vocabulary and no idf vector.
load_index(fs) ==
    [arr |-> NpyLoad(fs.emb),
     metas |-> JsonLoad(fs.meta),
     vec |-> [vocabulary |-> NpyLoad(fs.vocab), fitted |-> FALSE]]

\* lines 22-25.  TfidfVectorizer.transform starts with check_is_fitted and
\* raises NotFittedError on a vectorizer that was never fitted, whatever
\* vocabulary it was given; on a fitted one it returns the 1 x D row.
embed_query_tfidf(query, vec) ==
    IF vec.fitted
    THEN [ok |-> TRUE, qv |-> Row(query, vec.vocabulary)]
    ELSE [ok |-> FALSE, qv |-> <<>>]

Dot(a, b) ==
    LET RECURSIVE Sum(_)
        Sum(i) == IF i = 0 THEN 0 ELSE a[i] * b[i] + Sum(i - 1)
    IN Sum(Len(a))

\* line 30, one entry: the cosine of two non-negative vectors, as the
\* integer part of 100 * cos^2 (0 when either vector is all zero)
CosineSim(qv, row) ==
    IF Dot(qv, qv) = 0 \/ Dot(row, row) = 0 THEN 0
    ELSE (100 * Dot(qv, row) * Dot(qv, row)) \div (Dot(qv, qv) * Dot(row, row))

\* np.argsort(sims), the negation forgotten: the orders by non-decreasing score
ArgsortAsc(sims) ==
    {p \in [1..Len(sims) -> 1..Len(sims)] :
        /\ \A i, j \in 1..Len(sims) : i # j => p[i] # p[j]
        /\ \A i \in 1..Len(sims), j \in 1..Len(sims) : i < j => sims[p[i]] <= sims[p[j]]}

\* line 31, np.argsort(-sims): the orders of 1..N by non-increasing score.
\* The order among equal scores is the sort's own; every one is allowed.
ArgsortDesc(sims) ==
    {p \in [1..Len(sims) -> 1..Len(sims)] :
        /\ \A i, j \in 1..Len(sims) : i # j => p[i] # p[j]
        /\ \A i \in 1..Len(sims), j \in 1..Len(sims) : i < j => sims[p[i]] >= sims[p[j]]}

\* line 31, idx[:k]: the first k entries, or all but the last -k when k < 0
SliceTo(s, k) ==
    LET n == Len(s)
        e == IF k >= 0 THEN (IF k < n THEN k ELSE n) ELSE (IF n + k > 0 THEN n + k ELSE 0)
    IN SubSeq(s, 1, e)

\* the score taken at the item's place in the result, not at its row
Evidence_ScoreByPosition(idx, sims, metas) ==
    [raises |-> \E n \in 1..Len(idx) : idx[n] > Len(metas),
     results |-> [n \in 1..Len(idx) |->
                    IF idx[n] > Len(metas) THEN [score |-> sims[n], text |-> <<>>, meta |-> EmptyObj]
                    ELSE [score |-> sims[n], text |-> metas[idx[n]].text,
                          meta |-> metas[idx[n]].meta]]]

\* lines 32-35: the evidence of the selected rows; metas[i] fails with
\* IndexError when the metadata list is shorter than the matrix
Evidence(idx, sims, metas) ==
    [raises |-> \E n \in 1..Len(idx) : idx[n] > Len(metas),
     results |-> [n \in 1..Len(idx) |->
                    IF idx[n] > Len(metas) THEN [score |-> sims[idx[n]], text |-> <<>>, meta |-> EmptyObj]
                    ELSE [score |-> sims[idx[n]], text |-> metas[idx[n]].text,
                          meta |-> metas[idx[n]].meta]]]

\* -------------------------------------------------------------------- state

Builders == {"b1", "b2"}
Queriers == {"q1", "q2"}

\* the questions a caller asks, as the pieces of the query string
Queries == {<<"timeout", " ", "error">>}

\* the top_k a caller passes
Ks == 0..MaxK

\* what the log file holds after a rotation: nothing, or its first new line
FreshLogs == {<<>>} \cup {<<l>> : l \in Lines}

VARIABLES
    corpus,     \* logs/sample_logs.jsonl: the sequence of its lines
    files,      \* the artifact files .embeddings.npy, .emb_meta.json, .tfidf_vectorizer.npy
    bpc,        \* each index build's position in main()
    bmem,       \* each index build's locals: items, vec, arr
    bout,       \* how each builder's last run of main() ended
    bsrc,       \* the corpus each builder's last run of main() read
    qpc,        \* each query's position in assist()
    qarg,       \* each query's arguments: query, top_k
    qmem,       \* each query's locals after load_index: arr, metas, vec
    qemb,       \* each query's result of embed_query_tfidf
    qout,       \* how each query's last call of assist() ended
    qseen,      \* the artifact files that existed when the query tested them
    qread,      \* the artifact files the query has read
    qevid,      \* the evidence list the query's top_k_evidence returned
    fnIn,       \* the arguments of a function applied on its own
    fnOut,      \* its result
    fwriter,    \* the builder whose save_index wrote each artifact file last
    raw,        \* logs/sample_logs.jsonl as fix_bom.py sees it: its bytes, in units
    platform,   \* the operating system fix_bom.py runs on
    rawLog,     \* the bytes of the file at the start and after each run of fix_bom.py
    report,     \* what check_logs.py printed: one entry per line
    apc,        \* the position in lines 66-71 of assist()
    ain,        \* the evidence list and the query these lines work on
    aprompt,    \* the prompt build_prompt returned
    aproc,      \* the completed process of the last subprocess.run
    acalls,     \* how many times subprocess.run was called
    aout,       \* what assist returned or raised
    mgr,        \* the ModelManager's fields model and metadata
    mdisk,      \* the model file and the metadata file on disk
    mlocal,     \* the caller's variable holding the model a create_ method returned
    mcall,      \* the last call on the manager and its result
    mprev,      \* the call before it
    pfiles,     \* the model files that exist, by path
    pred,       \* the UnifiedPredictor's fields
    pcall       \* the last call on the predictor and its result

bvars == <<bpc, bmem, bout, bsrc, fwriter>>
qvars == <<qpc, qarg, qmem, qemb, qout, qseen, qread, qevid>>
fvars == <<fnIn, fnOut>>
tvars == <<raw, platform, rawLog, report>>
avars == <<apc, ain, aprompt, aproc, acalls, aout>>
mvars == <<mgr, mdisk, mlocal, mcall, mprev>>
pvars == <<pfiles, pred, pcall>>
xvars == <<tvars, avars, mvars, pvars>>
vars == <<corpus, files, bpc, bmem, bout, bsrc, qpc, qarg, qmem, qemb, qout, qseen, qread,
          qevid, fnIn, fnOut, fwriter, raw, platform, rawLog, report, apc, ain, aprompt,
          aproc, acalls, aout, mgr, mdisk, mlocal, mcall, mprev, pfiles, pred, pcall>>

NoVec == [vocabulary |-> <<>>, fitted |-> FALSE]
NoBMem == [items |-> <<>>, vec |-> NoVec, arr |-> <<>>]
NoQMem == [arr |-> <<>>, metas |-> <<>>, vec |-> NoVec]
NoEmb == [ok |-> FALSE, qv |-> <<>>]
NoArg == [query |-> <<>>, k |-> 0]
NoFn == [fn |-> "none", f |-> <<>>, qv |-> <<>>, arr |-> <<>>, metas |-> <<>>, k |-> 0]
NoResult == [done |-> FALSE, items |-> <<>>, out |-> "none", evidence |-> <<>>]
NoReport == [done |-> FALSE, lines |-> <<>>]
NoAssistIn == [evidence |-> <<>>, query |-> <<>>]
NoProc == [status |-> "none", prompt |-> <<>>, returncode |-> 0, stdout |-> <<>>, stderr |-> <<>>]
NoAssistOut == [returned |-> FALSE, raised |-> "none", key |-> "none", text |-> <<>>, evidence |-> <<>>]
MetaKeys == {"version", "saved_at", "model_type", "model_path"}
EmptyMeta == [k \in MetaKeys |-> Absent]
NoMetaFile == [exists |-> FALSE, data |-> EmptyMeta]
NoInfo == [model_loaded |-> FALSE, metadata |-> EmptyMeta, model_type |-> Absent,
           model_version |-> Absent, last_updated |-> Absent]
NoCall == [op |-> "none", model |-> None, version |-> Absent, ret |-> "none", info |-> NoInfo]

\* check_logs.py and fix_bom.py have not run
InitToolsIdle ==
    /\ raw = <<>>
    /\ platform = "posix"
    /\ rawLog = <<>>
    /\ report = NoReport

\* lines 66-71 of assist() are not under way
InitAssistIdle ==
    /\ apc = "idle"
    /\ ain = NoAssistIn
    /\ aprompt = <<>>
    /\ aproc = NoProc
    /\ acalls = 0
    /\ aout = NoAssistOut

\* a ModelManager just constructed (lines 23-33), no model file on disk
InitManagerIdle ==
    /\ mgr = [model |-> None, metadata |-> EmptyMeta]
    /\ mdisk = [model |-> None, metadata |-> NoMetaFile]
    /\ mlocal = None
    /\ mcall = NoCall
    /\ mprev = NoCall

\* a manager attribute of the predictor that holds None
NoManager == [kind |-> "none", model_path |-> None, model |-> None]

\* no UnifiedPredictor constructed yet
NoPredictor == [made |-> FALSE, model_type |-> "auto", sklearn_manager |-> NoManager,
                pytorch_manager |-> NoManager, active_manager |-> NoManager]

NoPredCall == [op |-> "none", ret |-> FALSE, out |-> "none"]

\* no predictor, no model file
InitPredictorIdle ==
    /\ pfiles = {}
    /\ pred = NoPredictor
    /\ pcall = NoPredCall

\* no process has run yet; no artifact file exists
InitProcs ==
    /\ files = NoFiles
    /\ fwriter = [n \in ArtifactNames |-> "nobody"]
    /\ bpc = [b \in Builders |-> "idle"]
    /\ bmem = [b \in Builders |-> NoBMem]
    /\ bout = [b \in Builders |-> "none"]
    /\ bsrc = [b \in Builders |-> <<>>]
    /\ qpc = [q \in Queriers |-> "idle"]
    /\ qarg = [q \in Queriers |-> NoArg]
    /\ qmem = [q \in Queriers |-> NoQMem]
    /\ qemb = [q \in Queriers |-> NoEmb]
    /\ qout = [q \in Queriers |-> "none"]
    /\ qseen = [q \in Queriers |-> {}]
    /\ qread = [q \in Queriers |-> {}]
    /\ qevid = [q \in Queriers |-> <<>>]

Init ==
    /\ corpus \in Corpora
    /\ InitProcs
    /\ fnIn = NoFn
    /\ fnOut = NoResult
    /\ InitToolsIdle
    /\ InitAssistIdle
    /\ InitManagerIdle
    /\ InitPredictorIdle

\* no build and no query is under way
Quiet == (\A b \in Builders : bpc[b] = "idle") /\ (\A q \in Queriers : qpc[q] = "idle")

\* -------------------------------------------------------------- the log file

\* the operator rotates the log between two runs
RotateLog(c) ==
    /\ Quiet
    /\ corpus # c
    /\ corpus' = c
    /\ UNCHANGED <<files, bvars, qvars, fvars, xvars>>

\* ------------------------------------------------------- index_logs.py: main

\* main without the "if not items" test of lines 46-48
main_begin_NoEmptyCheck(b, f) ==
    LET items == load_logs(f)
        built == build_tfidf(items)
    IN IF built.raises
       THEN /\ bout' = [bout EXCEPT ![b] = "ValueError"]
            /\ UNCHANGED <<bpc, bmem>>
       ELSE /\ bout' = [bout EXCEPT ![b] = "running"]
            /\ bpc' = [bpc EXCEPT ![b] = "save_emb"]
            /\ bmem' = [bmem EXCEPT ![b] = [items |-> items, vec |-> built.vec, arr |-> built.arr]]

\* lines 44-50: load the corpus, stop on an empty load, fit the vectorizer
main_begin(b, f) ==
    LET items == load_logs(f)
        built == build_tfidf(items)
    IN IF items = <<>>
       THEN /\ bout' = [bout EXCEPT ![b] = "No logs found"]
            /\ UNCHANGED <<bpc, bmem>>
       ELSE IF built.raises
       THEN /\ bout' = [bout EXCEPT ![b] = "ValueError"]
            /\ UNCHANGED <<bpc, bmem>>
       ELSE /\ bout' = [bout EXCEPT ![b] = "running"]
            /\ bpc' = [bpc EXCEPT ![b] = "save_emb"]
            /\ bmem' = [bmem EXCEPT ![b] = [items |-> items, vec |-> built.vec, arr |-> built.arr]]

main_start(b) ==
    /\ bpc[b] = "idle"
    /\ bsrc' = [bsrc EXCEPT ![b] = corpus]
    /\ main_begin(b, corpus)
    /\ UNCHANGED <<corpus, files, fwriter, fvars, xvars>>

StartBuild(b) == main_start(b) /\ UNCHANGED qvars

\* the new rows appended to the matrix already on disk
SaveEmb_AppendRows(b) ==
    /\ bpc[b] = "save_emb"
    /\ files' = [files EXCEPT !.emb =
                    IF files.emb = NoFile THEN NpySave(bmem[b].arr)
                    ELSE NpySave(NpyLoad(files.emb) \o bmem[b].arr)]
    /\ fwriter' = [fwriter EXCEPT !.emb = b]
    /\ bpc' = [bpc EXCEPT ![b] = "save_meta"]
    /\ UNCHANGED <<corpus, bmem, bout, bsrc, qvars, fvars, xvars>>

\* the vocabulary written first, together with the matrix
SaveEmb_VocabFirst(b) ==
    /\ bpc[b] = "save_emb"
    /\ files' = [files EXCEPT !.emb = NpySave(bmem[b].arr),
                              !.vocab = NpySave(get_feature_names_out(bmem[b].vec))]
    /\ fwriter' = [fwriter EXCEPT !.emb = b, !.vocab = b]
    /\ bpc' = [bpc EXCEPT ![b] = "save_meta"]
    /\ UNCHANGED <<corpus, bmem, bout, bsrc, qvars, fvars, xvars>>

\* line 35
SaveEmb(b) ==
    /\ bpc[b] = "save_emb"
    /\ files' = [files EXCEPT !.emb = NpySave(bmem[b].arr)]
    /\ fwriter' = [fwriter EXCEPT !.emb = b]
    /\ bpc' = [bpc EXCEPT ![b] = "save_meta"]
    /\ UNCHANGED <<corpus, bmem, bout, bsrc, qvars, fvars, xvars>>

\* the metadata file written only when there is none yet
SaveMeta_KeepExisting(b) ==
    /\ bpc[b] = "save_meta"
    /\ files' = IF files.meta = NoFile
                THEN [files EXCEPT !.meta = JsonDump(MetasOf(bmem[b].items))]
                ELSE files
    /\ fwriter' = [fwriter EXCEPT !.meta = b]
    /\ bpc' = [bpc EXCEPT ![b] = "save_vocab"]
    /\ UNCHANGED <<corpus, bmem, bout, bsrc, qvars, fvars, xvars>>

\* lines 36-38
SaveMeta(b) ==
    /\ bpc[b] = "save_meta"
    /\ files' = [files EXCEPT !.meta = JsonDump(MetasOf(bmem[b].items))]
    /\ fwriter' = [fwriter EXCEPT !.meta = b]
    /\ bpc' = [bpc EXCEPT ![b] = "save_vocab"]
    /\ UNCHANGED <<corpus, bmem, bout, bsrc, qvars, fvars, xvars>>

\* lines 40-41 and 52
SaveVocab(b) ==
    /\ bpc[b] = "save_vocab"
    /\ files' = [files EXCEPT !.vocab = NpySave(get_feature_names_out(bmem[b].vec))]
    /\ fwriter' = [fwriter EXCEPT !.vocab = b]
    /\ bpc' = [bpc EXCEPT ![b] = "idle"]
    /\ bmem' = [bmem EXCEPT ![b] = NoBMem]
    /\ bout' = [bout EXCEPT ![b] = "saved"]
    /\ UNCHANGED <<corpus, bsrc, qvars, fvars, xvars>>

\* the build's process is killed inside save_index
KillBuild(b) ==
    /\ bpc[b] \in {"save_emb", "save_meta", "save_vocab"}
    /\ bpc' = [bpc EXCEPT ![b] = "idle"]
    /\ bmem' = [bmem EXCEPT ![b] = NoBMem]
    /\ bout' = [bout EXCEPT ![b] = "killed"]
    /\ UNCHANGED <<corpus, files, fwriter, bsrc, qvars, fvars, xvars>>

\* ---------------------------------------------------- assist_query.py: assist

\* line 64: assist(query, top_k) is called
assist_start(q, query, k) ==
    /\ qpc[q] = "idle"
    /\ qpc' = [qpc EXCEPT ![q] = "load"]
    /\ qarg' = [qarg EXCEPT ![q] = [query |-> query, k |-> k]]
    /\ qmem' = [qmem EXCEPT ![q] = NoQMem]
    /\ qemb' = [qemb EXCEPT ![q] = NoEmb]
    /\ qout' = [qout EXCEPT ![q] = "running"]
    /\ qseen' = [qseen EXCEPT ![q] = {}]
    /\ qread' = [qread EXCEPT ![q] = {}]
    /\ qevid' = [qevid EXCEPT ![q] = <<>>]
    /\ UNCHANGED <<corpus, files, fvars, xvars>>

StartQuery(q, query, k) == assist_start(q, query, k) /\ UNCHANGED bvars

\* the loaded index kept in module-level variables that every query shares
LoadIndex_SharedCache(q) ==
    /\ qpc[q] = "load"
    /\ qseen' = [qseen EXCEPT ![q] = {n \in ArtifactNames : files[n] # NoFile}]
    /\ IF ~IndexPresent(files)
       THEN /\ qout' = [qout EXCEPT ![q] = "FileNotFoundError: Index files missing"]
            /\ qpc' = [qpc EXCEPT ![q] = "idle"]
            /\ UNCHANGED <<qmem, qread>>
       ELSE /\ qmem' = [p \in Queriers |-> load_index(files)]
            /\ qread' = [qread EXCEPT ![q] = ArtifactNames]
            /\ qpc' = [qpc EXCEPT ![q] = "embed"]
            /\ UNCHANGED qout
    /\ UNCHANGED <<corpus, files, bvars, qarg, qemb, qevid, fvars, xvars>>

\* lines 65, 28, 12-20: load_index
LoadIndex(q) ==
    /\ qpc[q] = "load"
    /\ qseen' = [qseen EXCEPT ![q] = {n \in ArtifactNames : files[n] # NoFile}]
    /\ IF ~IndexPresent(files)
       THEN /\ qout' = [qout EXCEPT ![q] = "FileNotFoundError: Index files missing"]
            /\ qpc' = [qpc EXCEPT ![q] = "idle"]
            /\ UNCHANGED <<qmem, qread>>
       ELSE IF ReadBeforeFailure(files) # ArtifactNames
       THEN /\ qout' = [qout EXCEPT ![q] = "FileNotFoundError"]
            /\ qpc' = [qpc EXCEPT ![q] = "idle"]
            /\ qread' = [qread EXCEPT ![q] = ReadBeforeFailure(files)]
            /\ UNCHANGED qmem
       ELSE /\ qmem' = [qmem EXCEPT ![q] = load_index(files)]
            /\ qread' = [qread EXCEPT ![q] = ArtifactNames]
            /\ qpc' = [qpc EXCEPT ![q] = "embed"]
            /\ UNCHANGED qout
    /\ UNCHANGED <<corpus, files, bvars, qarg, qemb, qevid, fvars, xvars>>

\* lines 30-35 and 66-67, for one order np.argsort may return
top_k_rest(qv, arr, metas, k, order) ==
    LET sims == [i \in 1..Len(arr) |-> CosineSim(qv, arr[i])]
        ev == Evidence(SliceTo(order, k), sims, metas)
    IN IF ev.raises THEN [out |-> "IndexError", evidence |-> <<>>]
       ELSE IF ev.results = <<>> THEN [out |-> "No evidence found", evidence |-> <<>>]
       ELSE [out |-> "evidence", evidence |-> ev.results]

\* lines 29-35 and 66-67: embed the query, rank, select; an exception of
\* embed_query_tfidf leaves assist through top_k_evidence
EmbedQuery(q) ==
    /\ qpc[q] = "embed"
    /\ LET e == embed_query_tfidf(qarg[q].query, qmem[q].vec)
           sims == [i \in 1..Len(qmem[q].arr) |-> CosineSim(e.qv, qmem[q].arr[i])]
       IN /\ qemb' = [qemb EXCEPT ![q] = e]
          /\ IF ~e.ok
             THEN /\ qout' = [qout EXCEPT ![q] = "NotFittedError"]
                  /\ UNCHANGED qevid
             ELSE \E order \in ArgsortDesc(sims) :
                     LET r == top_k_rest(e.qv, qmem[q].arr, qmem[q].metas, qarg[q].k, order)
                     IN /\ qout' = [qout EXCEPT ![q] = r.out]
                        /\ qevid' = [qevid EXCEPT ![q] = r.evidence]
    /\ qpc' = [qpc EXCEPT ![q] = "idle"]
    /\ UNCHANGED <<corpus, files, bvars, qarg, qmem, qseen, qread, fvars, xvars>>

\* --------------------------------------------------------------- one shell

\* index_logs.py and assist_query.py run one after the other in one shell,
\* as builder b1 and query q1, and the log is rotated between runs.  The
\* shell shows the outcome of the last command only: starting a command
\* forgets what the command before it printed.
ShellBuild ==
    /\ Quiet
    /\ main_start("b1")
    /\ qout' = [qout EXCEPT !["q1"] = "none"]
    /\ qarg' = [qarg EXCEPT !["q1"] = NoArg]
    /\ qmem' = [qmem EXCEPT !["q1"] = NoQMem]
    /\ qemb' = [qemb EXCEPT !["q1"] = NoEmb]
    /\ qseen' = [qseen EXCEPT !["q1"] = {}]
    /\ qread' = [qread EXCEPT !["q1"] = {}]
    /\ qevid' = [qevid EXCEPT !["q1"] = <<>>]
    /\ UNCHANGED qpc

ShellQuery(query, k) ==
    /\ Quiet
    /\ assist_start("q1", query, k)
    /\ bout' = [bout EXCEPT !["b1"] = "none"]
    /\ bsrc' = [bsrc EXCEPT !["b1"] = <<>>]
    /\ UNCHANGED <<bpc, bmem, fwriter>>

Next ==
    \/ \E c \in FreshLogs : RotateLog(c)
    \/ ShellBuild
    \/ SaveEmb("b1")
    \/ SaveMeta("b1")
    \/ SaveVocab("b1")
    \/ KillBuild("b1")
    \/ \E query \in Queries, k \in Ks : ShellQuery(query, k)
    \/ LoadIndex("q1")
    \/ EmbedQuery("q1")

Spec == Init /\ [][Next]_vars

\* ------------------------------------------------- functions on their own

\* the values a JSON field takes: a string, or null (None once parsed)
FieldVals == {"api", None}

Objects == [Keys -> FieldVals \cup {Absent}]

\* two lines that differ at most in the key the text does not render
TwinCorpora ==
    {<<ObjLine(o), ObjLine([o EXCEPT !.host = h])>> : o \in Objects, h \in FieldVals \cup {Absent}}

LoadInputs ==
    {[fn |-> "load_logs", f |-> c, qv |-> <<>>, arr |-> <<>>, metas |-> <<>>, k |-> 0] :
        c \in Corpora \cup TwinCorpora}

\* the rows and query vectors it is applied to: term counts over two terms
Vectors == {<<0, 0>>, <<1, 0>>, <<0, 1>>, <<1, 1>>, <<2, 1>>}

\* the metadata of an index of n records, one distinct text and one distinct
\* meta per record
MetasFor(n) ==
    [i \in 1..n |-> [id |-> <<"log_", i - 1>>, text |-> <<"doc", i>>,
                     meta |-> [EmptyObj EXCEPT !.host = ToString(i)]]]

TopKInputs ==
    {[fn |-> "top_k", f |-> <<>>, qv |-> qv, arr |-> arr, metas |-> MetasFor(Len(arr)), k |-> k] :
        qv \in Vectors, arr \in SeqsUpTo(Vectors, MaxN) \ {<<>>}, k \in (0 - MaxK)..MaxK}

InitFn ==
    /\ corpus = <<>>
    /\ InitProcs
    /\ fnIn \in LoadInputs \cup TopKInputs
    /\ fnOut = NoResult
    /\ InitToolsIdle
    /\ InitAssistIdle
    /\ InitManagerIdle
    /\ InitPredictorIdle

\* load_logs (lines 12-25) applied to a corpus file
ApplyLoad ==
    /\ fnIn.fn = "load_logs"
    /\ ~fnOut.done
    /\ fnOut' = [done |-> TRUE, items |-> load_logs(fnIn.f), out |-> "returned", evidence |-> <<>>]
    /\ UNCHANGED <<corpus, files, bvars, qvars, fnIn, xvars>>

\* lines 30-35 of top_k_evidence applied to a query vector and a loaded index
ApplyTopK ==
    /\ fnIn.fn = "top_k"
    /\ ~fnOut.done
    /\ \E order \in ArgsortDesc([i \in 1..Len(fnIn.arr) |-> CosineSim(fnIn.qv, fnIn.arr[i])]) :
          LET r == top_k_rest(fnIn.qv, fnIn.arr, fnIn.metas, fnIn.k, order)
          IN fnOut' = [done |-> TRUE, items |-> <<>>, out |-> r.out, evidence |-> r.evidence]
    /\ UNCHANGED <<corpus, files, bvars, qvars, fnIn, xvars>>

NextFn == ApplyLoad \/ ApplyTopK

SpecFn == InitFn /\ [][NextFn]_vars

\* ------------------------------------------------------------------ claims

\* a line that is a JSON object: the lines a record is made of
IsRecordLine(line) == line.kind = "obj"

\* a line json.loads accepts
IsJsonLine(line) == line.kind \in {"scalar", "obj"}

\* the 0-based numbers of the record lines among the first n lines of f
RECURSIVE RecordLineIdx(_, _)
RecordLineIdx(f, n) ==
    IF n = 0 THEN <<>>
    ELSE IF IsRecordLine(f[n]) THEN Append(RecordLineIdx(f, n - 1), n - 1)
         ELSE RecordLineIdx(f, n - 1)

\* the 0-based numbers of the lines json.loads accepts
RECURSIVE JsonLineIdx(_, _)
JsonLineIdx(f, n) ==
    IF n = 0 THEN <<>>
    ELSE IF IsJsonLine(f[n]) THEN Append(JsonLineIdx(f, n - 1), n - 1)
         ELSE JsonLineIdx(f, n - 1)

ZeroRecords(f) == \A n \in 1..Len(f) : ~IsRecordLine(f[n])

\* the records of the record lines of f, in file order
RecordsOf(f) ==
    LET idx == RecordLineIdx(f, Len(f))
    IN [n \in 1..Len(idx) |->
          [id |-> <<"log_", idx[n]>>, text |-> RenderText(f[idx[n] + 1].obj),
           meta |-> f[idx[n] + 1].obj]]

\* the artifact a completed build over corpus f leaves
BuiltIndex(f) ==
    LET items == load_logs(f)
        built == build_tfidf(items)
    IN [emb |-> NpySave(built.arr), meta |-> JsonDump(MetasOf(items)),
        vocab |-> NpySave(get_feature_names_out(built.vec))]

Buildable(f) == load_logs(f) # <<>> /\ ~build_tfidf(load_logs(f)).raises

\* the loaded index m is the artifact of one completed build
FromCompletedBuild(m) ==
    \E c \in Corpora \cup FreshLogs : Buildable(c) /\ m = load_index(BuiltIndex(c))

\* C1: once a build has completed, the persisted matrix has as many rows as
\* the persisted metadata has entries, and entry i and row i are those of the
\* i-th record line of the corpus the build read, in file order.
C1_BuildAlignment ==
    bout["b1"] = "saved" =>
        LET rows == NpyLoad(files.emb)
            metas == JsonLoad(files.meta)
            vocab == NpyLoad(files.vocab)
            idx == RecordLineIdx(bsrc["b1"], Len(bsrc["b1"]))
        IN /\ Len(rows) = Len(metas)
           /\ Len(metas) = Len(idx)
           /\ \A i \in 1..Len(idx) :
                 /\ metas[i].id = <<"log_", idx[i]>>
                 /\ metas[i].meta = bsrc["b1"][idx[i] + 1].obj
                 /\ i <= Len(rows) /\ rows[i] = Row(RenderText(bsrc["b1"][idx[i] + 1].obj), vocab)

\* a completed build over a two-line corpus whose first line was skipped
C1_Witness ==
    /\ bout["b1"] = "saved"
    /\ Len(bsrc["b1"]) = 2
    /\ ~IsRecordLine(bsrc["b1"][1])
    /\ Len(JsonLoad(files.meta)) = 1

\* C2: a query that has loaded the index of a completed build and passed
\* embed_query_tfidf holds a query vector whose width is the length of the
\* persisted vocabulary and the column count of the persisted matrix.
C2_QueryVectorWidth ==
    \A q \in Queriers :
        (qpc[q] = "idle" /\ qread[q] = ArtifactNames /\ FromCompletedBuild(qmem[q])) =>
            /\ qemb[q].ok
            /\ Len(qemb[q].qv) = Len(qmem[q].vec.vocabulary)
            /\ \A i \in 1..Len(qmem[q].arr) : Len(qmem[q].arr[i]) = Len(qemb[q].qv)

\* C3: top_k_evidence over a built index of N records with K >= 0 returns
\* min(K, N) evidence items and raises nothing.
C3_TopKLength ==
    \A q \in Queriers :
        (qpc[q] = "idle" /\ qread[q] = ArtifactNames /\ FromCompletedBuild(qmem[q])
            /\ qarg[q].k >= 0) =>
            /\ qout[q] \in {"evidence", "No evidence found"}
            /\ Len(qevid[q]) = (IF qarg[q].k < Len(qmem[q].arr) THEN qarg[q].k
                                ELSE Len(qmem[q].arr))

\* C4: the evidence of lines 30-35 is in non-increasing score order, and no
\* record left out of it scores higher than an item in it.
C4_TopKSelection ==
    (fnIn.fn = "top_k" /\ fnOut.done) =>
        LET ev == fnOut.evidence
            sims == [i \in 1..Len(fnIn.arr) |-> CosineSim(fnIn.qv, fnIn.arr[i])]
        IN /\ \A m, n \in 1..Len(ev) : m < n => ev[m].score >= ev[n].score
           /\ \A i \in 1..Len(fnIn.arr) :
                 (\A n \in 1..Len(ev) : ev[n].text # fnIn.metas[i].text) =>
                     \A n \in 1..Len(ev) : sims[i] <= ev[n].score

\* two items of different score selected and a record left out
C4_Witness ==
    /\ fnIn.fn = "top_k" /\ fnOut.done
    /\ Len(fnOut.evidence) = 2
    /\ fnOut.evidence[1].score > fnOut.evidence[2].score
    /\ Len(fnIn.arr) = 3

\* C5: a query reads an artifact file only when it found all three; when one
\* is missing it ends with the "Index files missing" error, having read no
\* file, loaded nothing, embedded nothing and produced no evidence.
C5_LoadAllOrNothing ==
    \A q \in Queriers :
        /\ qread[q] # {} => (qseen[q] = ArtifactNames /\ qread[q] = ArtifactNames)
        /\ (qpc[q] # "load" /\ qout[q] # "none" /\ qseen[q] # ArtifactNames) =>
              /\ qout[q] = "FileNotFoundError: Index files missing"
              /\ qpc[q] = "idle"
              /\ qread[q] = {}
              /\ qmem[q] = NoQMem
              /\ qemb[q] = NoEmb
              /\ qevid[q] = <<>>

\* a query that found the matrix and the metadata, and no vocabulary
C5_Witness ==
    /\ qout["q1"] = "FileNotFoundError: Index files missing"
    /\ qseen["q1"] = {"emb", "meta"}

\* a run of main() by builder b has just started and read the corpus
BuildRan(b) ==
    /\ bpc[b] = "idle"
    /\ bout'[b] # "none"
    /\ bsrc'[b] # bsrc[b] \/ bout'[b] # bout[b]

\* C6: a run of main() over a corpus with no record line reports "No logs
\* found", stays out of save_index and leaves the three artifact files as
\* they were.
C6_EmptyCorpusBuild ==
    [][\A b \in Builders :
          (BuildRan(b) /\ ZeroRecords(bsrc'[b])) =>
              /\ bout'[b] = "No logs found"
              /\ bpc'[b] = "idle"
              /\ files' = files]_vars

\* "No logs found" reported over a non-empty corpus, an earlier index in place
C6_Witness ==
    /\ bout["b1"] = "No logs found"
    /\ bsrc["b1"] # <<>>
    /\ IndexPresent(files)

\* C7: assist with top_k = 0 over a built index returns the "No evidence
\* found" error object with an empty evidence list and raises nothing.
C7_NoEvidenceGuard ==
    \A q \in Queriers :
        (qpc[q] = "idle" /\ qread[q] = ArtifactNames /\ FromCompletedBuild(qmem[q])
            /\ qarg[q].k = 0) =>
            /\ qout[q] = "No evidence found"
            /\ qevid[q] = <<>>

\* C8 as stated: load_logs returns one record per line that json.loads
\* accepts, in file order.
C8_OneRecordPerJsonLine ==
    (fnIn.fn = "load_logs" /\ fnOut.done) =>
        LET idx == JsonLineIdx(fnIn.f, Len(fnIn.f))
        IN [n \in 1..Len(fnOut.items) |-> fnOut.items[n].id]
               = [n \in 1..Len(idx) |-> <<"log_", idx[n]>>]

\* C8, amended: load_logs returns exactly the records of the lines that are
\* JSON objects, in file order; every other line is skipped and drops no
\* other line.
C8_OneRecordPerObjectLine ==
    (fnIn.fn = "load_logs" /\ fnOut.done) => fnOut.items = RecordsOf(fnIn.f)

\* a malformed first line, and the record of the second line loaded
C8_Witness ==
    /\ fnIn.fn = "load_logs" /\ fnOut.done
    /\ Len(fnIn.f) = 2
    /\ fnIn.f[1].kind = "bad"
    /\ Len(fnOut.items) = 1

\* C9: the text of a record is '<ts>' newline '[<service>] <level>: <msg>',
\* with the empty string for each of the four fields the record lacks.
C9_AbsentRendersEmpty ==
    (fnIn.fn = "load_logs" /\ fnOut.done) =>
        \A n \in 1..Len(fnOut.items) :
            LET j == fnOut.items[n].meta
                field(k) == IF j[k] = Absent THEN "" ELSE PyStr(j[k])
            IN fnOut.items[n].text =
                   <<field("ts"), "\n[", field("service"), "] ", field("level"), ": ",
                     field("msg")>>

\* C10: two records of one load whose ts, service, level and msg agree have
\* the same text, and the meta of every record is the parsed object of its
\* line, every key and value kept.
C10_TextIgnoresOtherKeys ==
    (fnIn.fn = "load_logs" /\ fnOut.done) =>
        LET idx == RecordLineIdx(fnIn.f, Len(fnIn.f))
        IN /\ Len(fnOut.items) = Len(idx)
           /\ \A n \in 1..Len(idx) : fnOut.items[n].meta = fnIn.f[idx[n] + 1].obj
           /\ \A m, n \in 1..Len(fnOut.items) :
                 (\A k \in {"ts", "service", "level", "msg"} :
                     fnOut.items[m].meta[k] = fnOut.items[n].meta[k])
                 => fnOut.items[m].text = fnOut.items[n].text

\* two lines that differ in the host key only, both loaded
C10_Witness ==
    /\ fnIn.fn = "load_logs" /\ fnOut.done
    /\ Len(fnOut.items) = 2
    /\ fnOut.items[1].meta.host # fnOut.items[2].meta.host
    /\ \A k \in {"ts", "service", "level", "msg"} :
          fnOut.items[1].meta[k] = fnOut.items[2].meta[k]

\* C11: within one load, every record's id is "log_" followed by the 0-based
\* number of the line it was parsed from, blank and malformed lines counted,
\* and no two records of the load have the same id.
C11_IdIsLineOrdinal ==
    (fnIn.fn = "load_logs" /\ fnOut.done) =>
        /\ \A n \in 1..Len(fnOut.items) :
              \E i \in 0..(Len(fnIn.f) - 1) :
                 /\ fnOut.items[n].id = <<"log_", i>>
                 /\ IsRecordLine(fnIn.f[i + 1])
                 /\ fnOut.items[n].meta = fnIn.f[i + 1].obj
                 /\ Cardinality({m \in 1..(i + 1) : IsRecordLine(fnIn.f[m])}) = n
        /\ \A m, n \in 1..Len(fnOut.items) :
              m # n => fnOut.items[m].id # fnOut.items[n].id

\* a skipped first line counted: the only record is log_1
C11_Witness ==
    /\ fnIn.fn = "load_logs" /\ fnOut.done
    /\ Len(fnIn.f) = 2
    /\ ~IsJsonLine(fnIn.f[1])
    /\ Len(fnOut.items) = 1
    /\ fnOut.items[1].id = <<"log_", 1>>

\* ------------------------------------------------------------ check_logs.py

\* a stricter audit: a line of JSON that is no object reported BAD
AuditStatus_ObjectsOnly(line) ==
    IF line.kind = "blank" THEN "BLANK"
    ELSE IF line.kind = "obj" THEN "OK"
    ELSE "BAD"

\* lines 5-13 on one line of the file: what is printed for it
AuditStatus(line) ==
    IF line.kind = "blank" THEN "BLANK"
    ELSE IF line.kind \in {"scalar", "obj"} THEN "OK"
    ELSE "BAD"

\* the exception of json.loads not caught: the run ends at the first BAD line
check_logs_StopAtBad(f) ==
    LET bad == {i \in 1..Len(f) : f[i].kind = "bad"}
        last == IF bad = {} THEN Len(f) ELSE (CHOOSE i \in bad : \A j \in bad : i <= j) - 1
    IN [i \in 1..last |-> [line |-> i, status |-> AuditStatus(f[i])]]

\* lines 3-13: one printed status per line, numbered by enumerate(f, 1)
check_logs(f) == [i \in 1..Len(f) |-> [line |-> i, status |-> AuditStatus(f[i])]]

\* the corpus files the audit is run on
AuditInputs == Corpora \cup TwinCorpora

InitAudit ==
    /\ corpus \in AuditInputs
    /\ InitProcs
    /\ fnIn = NoFn
    /\ fnOut = NoResult
    /\ InitToolsIdle
    /\ InitAssistIdle
    /\ InitManagerIdle
    /\ InitPredictorIdle

\* one run of check_logs.py
RunCheckLogs ==
    /\ ~report.done
    /\ report' = [done |-> TRUE, lines |-> check_logs(corpus)]
    /\ UNCHANGED <<corpus, files, bvars, qvars, fvars, raw, platform, rawLog, avars, mvars, pvars>>

NextAudit == RunCheckLogs

SpecAudit == InitAudit /\ [][NextAudit]_vars

\* C12: check_logs reports exactly one status per physical line, numbered
\* from 1 in file order: BLANK exactly for a whitespace-only line, OK exactly
\* for a line that parses as JSON, BAD for every other line; lines after a
\* BAD line are still reported.
C12_OneStatusPerLine ==
    report.done =>
        /\ Len(report.lines) = Len(corpus)
        /\ \A i \in 1..Len(corpus) :
              /\ report.lines[i].line = i
              /\ report.lines[i].status \in {"BLANK", "OK", "BAD"}
              /\ report.lines[i].status = "BLANK" <=> corpus[i].kind = "blank"
              /\ report.lines[i].status = "OK" <=> IsJsonLine(corpus[i])

\* '{bad json' followed by a record: line 1 BAD, line 2 OK
C12_Witness ==
    /\ report.done
    /\ Len(corpus) = 2
    /\ corpus[1].kind = "bad"
    /\ IsRecordLine(corpus[2])
    /\ report.lines = <<[line |-> 1, status |-> "BAD"], [line |-> 2, status |-> "OK"]>>

\* --------------------------------------------------------------- fix_bom.py

\* The bytes of a file, in units: "BOM" is EF BB BF, "CR" and "LF" the two
\* line-ending bytes, "x" the bytes of any other character, "bad" a byte
\* that is not valid UTF-8.
ByteUnits == {"BOM", "CR", "LF", "x", "bad"}

Platforms == {"posix", "nt"}

\* the files fix_bom.py is run on
RawFiles == SeqsUpTo(ByteUnits, MaxBytes)

\* open(p, "r") translates "\r\n" and "\r" to "\n" while reading (newline=None)
RECURSIVE UniversalNewlines(_)
UniversalNewlines(b) ==
    IF b = <<>> THEN <<>>
    ELSE IF Head(b) = "CR" /\ Len(b) >= 2 /\ b[2] = "LF"
         THEN <<"\n">> \o UniversalNewlines(Tail(Tail(b)))
    ELSE IF Head(b) \in {"CR", "LF"} THEN <<"\n">> \o UniversalNewlines(Tail(b))
    ELSE IF Head(b) = "BOM" THEN <<"\\ufeff">> \o UniversalNewlines(Tail(b))
    ELSE <<Head(b)>> \o UniversalNewlines(Tail(b))

\* lines 3-4: f.read() under encoding "utf-8-sig": an invalid byte raises
\* UnicodeDecodeError; the first three bytes are skipped when they are a BOM
ReadUtf8Sig(b) ==
    IF \E i \in 1..Len(b) : b[i] = "bad" THEN [raises |-> TRUE, data |-> <<>>]
    ELSE IF b # <<>> /\ b[1] = "BOM" THEN [raises |-> FALSE, data |-> UniversalNewlines(Tail(b))]
    ELSE [raises |-> FALSE, data |-> UniversalNewlines(b)]

\* lines 6-7: f.write(data) under encoding "utf-8": "\n" is written as os.linesep
RECURSIVE WriteUtf8(_, _)
WriteUtf8(data, os) ==
    IF data = <<>> THEN <<>>
    ELSE IF Head(data) = "\n"
         THEN (IF os = "nt" THEN <<"CR", "LF">> ELSE <<"LF">>) \o WriteUtf8(Tail(data), os)
    ELSE IF Head(data) = "\\ufeff" THEN <<"BOM">> \o WriteUtf8(Tail(data), os)
    ELSE <<Head(data)>> \o WriteUtf8(Tail(data), os)

\* the file after one run; a run that raises while reading has not opened
\* the file for writing
fix_bom(b, os) ==
    LET r == ReadUtf8Sig(b)
    IN IF r.raises THEN b ELSE WriteUtf8(r.data, os)

InitBom ==
    /\ corpus = <<>>
    /\ InitProcs
    /\ fnIn = NoFn
    /\ fnOut = NoResult
    /\ raw \in RawFiles
    /\ platform \in Platforms
    /\ rawLog = <<raw>>
    /\ report = NoReport
    /\ InitAssistIdle
    /\ InitManagerIdle
    /\ InitPredictorIdle

\* one run of fix_bom.py
RunFixBom ==
    /\ Len(rawLog) <= MaxRuns
    /\ raw' = fix_bom(raw, platform)
    /\ rawLog' = Append(rawLog, raw')
    /\ UNCHANGED <<corpus, files, bvars, qvars, fvars, platform, report, avars, mvars, pvars>>

NextBom == RunFixBom

SpecBom == InitBom /\ [][NextBom]_vars

\* a file that is valid UTF-8 and does not start with a byte-order mark
CleanFile(b) ==
    /\ \A i \in 1..Len(b) : b[i] # "bad"
    /\ b = <<>> \/ b[1] # "BOM"

\* C13: running fix_bom twice leaves the file byte-identical to the file
\* left by running it once, whatever the file held.
C13_FixBomIdempotent ==
    Len(rawLog) >= 3 => rawLog[3] = rawLog[2]

\* C14: a run of fix_bom on a file that is valid UTF-8 with no leading
\* byte-order mark leaves the file byte-identical to what it was.
C14_CleanFileUnchanged ==
    (Len(rawLog) >= 2 /\ CleanFile(rawLog[1])) => rawLog[2] = rawLog[1]

\* ------------------------------------- assist_query.py: prompt and LLM call

OLLAMA_MODEL == "llama-3"

\* the fixed text of the template of lines 41-54, around its two fields
PromptHead ==
    "\nYou are an MLOps assistant. Using ONLY the evidence blocks below, produce:\n1) SUMMARY (3 bullets)\n2) ROOT CAUSE hypotheses (1-2 bullets with confidence)\n3) Up to 2 SAFE ACTIONS (each action must reference evidence blocks)\n\nEVIDENCE:\n"
PromptMid == "\n\nQUESTION:\n"
PromptTail == "\n\nAnswer in plain text, short bullets.\n"

\* evidence_text assigned, not appended to: only the last item is rendered
EvidenceText_LastOnly(evidence, i) ==
    IF evidence = <<>> THEN <<>>
    ELSE <<"[EVID_", ToString(Len(evidence) - 1), "] ">> \o evidence[Len(evidence)].text
             \o <<"\n">>

\* lines 38-40: one "[EVID_<i>] <text>" line per evidence item, i from 0
RECURSIVE EvidenceText(_, _)
EvidenceText(evidence, i) ==
    IF i >= Len(evidence) THEN <<>>
    ELSE <<"[EVID_", ToString(i), "] ">> \o evidence[i + 1].text \o <<"\n">>
             \o EvidenceText(evidence, i + 1)

\* lines 37-55
build_prompt(evidence, question) ==
    <<PromptHead>> \o EvidenceText(evidence, 0) \o <<PromptMid>> \o question \o <<PromptTail>>

Whitespace == {" ", "\n"}

\* str.strip() on a text given as its pieces
RECURSIVE LStrip(_)
LStrip(t) == IF t # <<>> /\ Head(t) \in Whitespace THEN LStrip(Tail(t)) ELSE t

RECURSIVE RStrip(_)
RStrip(t) ==
    IF t # <<>> /\ t[Len(t)] \in Whitespace THEN RStrip(SubSeq(t, 1, Len(t) - 1)) ELSE t

PyStrip(t) == RStrip(LStrip(t))

\* what the ollama process may print on either stream
Stdouts == {<<>>, <<"SUMMARY ...", "\n">>, <<" ", "SUMMARY ...">>}
Stderrs == {<<>>, <<"Error: model not found", "\n">>}
ReturnCodes == {0, 1}

\* subprocess.run of line 59: the executable is missing, or the process
\* completes with some return code and some output
ProcOutcomes(prompt) ==
    {[status |-> "ENOENT", prompt |-> prompt, returncode |-> 0, stdout |-> <<>>, stderr |-> <<>>]}
    \cup {[status |-> "exited", prompt |-> prompt, returncode |-> rc, stdout |-> o, stderr |-> e] :
             rc \in ReturnCodes, o \in Stdouts, e \in Stderrs}

\* the return code never looked at
call_ollama_IgnoreExit(proc) ==
    IF proc.status = "ENOENT" THEN [raised |-> "FileNotFoundError", text |-> <<>>]
    ELSE [raised |-> "none", text |-> PyStrip(proc.stdout)]

\* lines 57-62, given the outcome of subprocess.run
call_ollama(proc) ==
    IF proc.status = "ENOENT" THEN [raised |-> "FileNotFoundError", text |-> <<>>]
    ELSE IF proc.returncode # 0
    THEN [raised |-> "RuntimeError", text |-> <<"Ollama error: ">> \o PyStrip(proc.stderr)]
    ELSE [raised |-> "none", text |-> PyStrip(proc.stdout)]

\* only the best evidence item handed back
assist_return_FirstOnly(out, evidence) ==
    [returned |-> TRUE, raised |-> "none", key |-> "raw_text", text |-> out,
     evidence |-> SubSeq(evidence, 1, 1)]

\* line 71: return {"raw_text": out}, evidence
assist_return(out, evidence) ==
    [returned |-> TRUE, raised |-> "none", key |-> "raw_text", text |-> out, evidence |-> evidence]

\* the evidence items top_k_evidence hands to these lines
EvItems ==
    {[score |-> 100, text |-> RenderText(ObjA), meta |-> ObjA],
     [score |-> 50, text |-> RenderText(ObjP), meta |-> ObjP],
     [score |-> 0, text |-> RenderText(ObjE), meta |-> ObjE]}

AssistInputs == {[evidence |-> ev, query |-> q] : ev \in SeqsUpTo(EvItems, MaxK), q \in Queries}

\* line 65 has returned an evidence list
InitAssist ==
    /\ corpus = <<>>
    /\ InitProcs
    /\ fnIn = NoFn
    /\ fnOut = NoResult
    /\ InitToolsIdle
    /\ InitManagerIdle
    /\ InitPredictorIdle
    /\ apc = "evidence"
    /\ ain \in AssistInputs
    /\ aprompt = <<>>
    /\ aproc = NoProc
    /\ acalls = 0
    /\ aout = NoAssistOut

\* the prompt built and the process run whatever the evidence list holds
AssistPrompt_NoGuard ==
    /\ apc = "evidence"
    /\ aprompt' = build_prompt(ain.evidence, ain.query)
    /\ apc' = "call"
    /\ UNCHANGED aout
    /\ UNCHANGED <<corpus, files, bvars, qvars, fvars, tvars, mvars, pvars, ain, aproc, acalls>>

\* lines 66-68: return the error object on an empty list, else build the prompt
AssistPrompt ==
    /\ apc = "evidence"
    /\ IF ain.evidence = <<>>
       THEN /\ aout' = [returned |-> TRUE, raised |-> "none", key |-> "error",
                        text |-> <<"No evidence found. Run index_logs.py first.">>,
                        evidence |-> <<>>]
            /\ apc' = "done"
            /\ UNCHANGED aprompt
       ELSE /\ aprompt' = build_prompt(ain.evidence, ain.query)
            /\ apc' = "call"
            /\ UNCHANGED aout
    /\ UNCHANGED <<corpus, files, bvars, qvars, fvars, tvars, mvars, pvars, ain, aproc, acalls>>

\* lines 69-71 and 57-62: run the process once, return its output or raise
AssistCall ==
    /\ apc = "call"
    /\ \E proc \in ProcOutcomes(aprompt) :
          LET r == call_ollama(proc)
          IN /\ aproc' = proc
             /\ acalls' = acalls + 1
             /\ aout' = IF r.raised # "none"
                        THEN [returned |-> FALSE, raised |-> r.raised, key |-> "none",
                              text |-> r.text, evidence |-> <<>>]
                        ELSE assist_return(r.text, ain.evidence)
    /\ apc' = "done"
    /\ UNCHANGED <<corpus, files, bvars, qvars, fvars, tvars, mvars, pvars, ain, aprompt>>

NextAssist == AssistPrompt \/ AssistCall

SpecAssist == InitAssist /\ [][NextAssist]_vars

\* C15: when the process of the backend completes with a non-zero return
\* code, assist raises an error whose message carries the stripped stderr of
\* the process, returns nothing, and has run the process exactly once.
C15_BackendFailureRaises ==
    /\ acalls <= 1
    /\ (aproc.status = "exited" /\ aproc.returncode # 0) =>
          /\ apc = "done"
          /\ ~aout.returned
          /\ aout.raised = "RuntimeError"
          /\ aout.text = <<"Ollama error: ">> \o PyStrip(aproc.stderr)
          /\ aout.key = "none"
          /\ aout.evidence = <<>>
          /\ acalls = 1

\* return code 1 with a message on stderr, raised as RuntimeError
C15_Witness ==
    /\ aproc.status = "exited"
    /\ aproc.returncode = 1
    /\ aproc.stderr = <<"Error: model not found", "\n">>
    /\ aout.raised = "RuntimeError"
    /\ aout.text = <<"Ollama error: ", "Error: model not found">>

\* C16: when assist returns a raw_text result, the text is the stripped
\* stdout of the process, and the evidence list returned with it is, item for
\* item and in order, the list whose rendering is the prompt the process got.
C16_ResultPairsPromptEvidence ==
    (aout.returned /\ aout.key = "raw_text") =>
        /\ aproc.status = "exited" /\ aproc.returncode = 0
        /\ aout.text = PyStrip(aproc.stdout)
        /\ aout.evidence = ain.evidence
        /\ aproc.prompt = build_prompt(aout.evidence, ain.query)
        /\ Len(aout.evidence) >= 1

\* a two-item evidence list returned with the backend's answer
C16_Witness ==
    /\ aout.returned /\ aout.key = "raw_text"
    /\ Len(aout.evidence) = 2
    /\ aout.evidence[1] # aout.evidence[2]
    /\ aout.text = <<"SUMMARY ...">>

\* ------------------------------------------------------- concurrent queries

\* the artifact the queries run over: none, or the one a completed build left
FixedIndexes == {NoFiles} \cup {BuiltIndex(c) : c \in {d \in Corpora : Buildable(d)}}

InitQueries ==
    /\ corpus = <<>>
    /\ files \in FixedIndexes
    /\ fwriter = [n \in ArtifactNames |-> IF files[n] = NoFile THEN "nobody" ELSE "b1"]
    /\ bpc = [b \in Builders |-> "idle"]
    /\ bmem = [b \in Builders |-> NoBMem]
    /\ bout = [b \in Builders |-> "none"]
    /\ bsrc = [b \in Builders |-> <<>>]
    /\ qpc = [q \in Queriers |-> "idle"]
    /\ qarg = [q \in Queriers |-> NoArg]
    /\ qmem = [q \in Queriers |-> NoQMem]
    /\ qemb = [q \in Queriers |-> NoEmb]
    /\ qout = [q \in Queriers |-> "none"]
    /\ qseen = [q \in Queriers |-> {}]
    /\ qread = [q \in Queriers |-> {}]
    /\ qevid = [q \in Queriers |-> <<>>]
    /\ fnIn = NoFn
    /\ fnOut = NoResult
    /\ InitToolsIdle
    /\ InitAssistIdle
    /\ InitManagerIdle
    /\ InitPredictorIdle

\* any number of assist() calls, each in its own process, steps interleaved
NextQueries ==
    \/ \E q \in Queriers, query \in Queries, k \in Ks : StartQuery(q, query, k)
    \/ \E q \in Queriers : LoadIndex(q)
    \/ \E q \in Queriers : EmbedQuery(q)

SpecQueries == InitQueries /\ [][NextQueries]_vars

\* everything one query holds
QueryState(q) == <<qpc[q], qarg[q], qmem[q], qemb[q], qout[q], qseen[q], qread[q], qevid[q]>>

\* the ways assist(arg.query, arg.k) can end when it runs alone over files fs
AloneOutcomes(fs, arg) ==
    IF ~IndexPresent(fs)
    THEN {[out |-> "FileNotFoundError: Index files missing", evidence |-> <<>>]}
    ELSE IF ReadBeforeFailure(fs) # ArtifactNames
    THEN {[out |-> "FileNotFoundError", evidence |-> <<>>]}
    ELSE LET m == load_index(fs)
             e == embed_query_tfidf(arg.query, m.vec)
             sims == [i \in 1..Len(m.arr) |-> CosineSim(e.qv, m.arr[i])]
         IN IF ~e.ok THEN {[out |-> "NotFittedError", evidence |-> <<>>]}
            ELSE {top_k_rest(e.qv, m.arr, m.metas, arg.k, order) : order \in ArgsortDesc(sims)}

\* C17: queries running at the same time over a fixed index do not
\* interfere: each query that has loaded holds its own copy of the three
\* files as they are on disk, a finished query has ended the way it ends when
\* run alone, a step of one query changes nothing another query holds, and
\* no step of a query changes an artifact file.
C17_QueriesDoNotInterfere ==
    /\ [](\A q \in Queriers :
            /\ qpc[q] = "embed" => (qread[q] = ArtifactNames /\ qmem[q] = load_index(files))
            /\ (qpc[q] = "idle" /\ qout[q] # "none") =>
                  [out |-> qout[q], evidence |-> qevid[q]] \in AloneOutcomes(files, qarg[q]))
    /\ [][/\ files' = files
          /\ \A q, p \in Queriers :
                (q # p /\ QueryState(q)' # QueryState(q)) => QueryState(p)' = QueryState(p)]_vars

\* one query has finished over a built index while the other, called with
\* another top_k, is between its load and its ranking
C17_Witness ==
    /\ IndexPresent(files)
    /\ qpc["q1"] = "idle" /\ qout["q1"] # "none"
    /\ qpc["q2"] = "embed"
    /\ qarg["q1"].k # qarg["q2"].k
    /\ qmem["q2"] = load_index(files)

\* -------------------------------------------------------- concurrent builds

\* the service appending to the log, or a rotation, while builds run
LogChanges(c) ==
    /\ corpus # c
    /\ corpus' = c
    /\ UNCHANGED <<files, bvars, qvars, fvars, xvars>>

\* python index_logs.py started once per builder, with no lock taken
FirstBuild(b) ==
    /\ bout[b] = "none"
    /\ StartBuild(b)

InitBuilds ==
    /\ corpus \in FreshLogs
    /\ InitProcs
    /\ fnIn = NoFn
    /\ fnOut = NoResult
    /\ InitToolsIdle
    /\ InitAssistIdle
    /\ InitManagerIdle
    /\ InitPredictorIdle

NextBuilds ==
    \/ \E c \in FreshLogs : LogChanges(c)
    \/ \E b \in Builders : FirstBuild(b)
    \/ \E b \in Builders : SaveEmb(b)
    \/ \E b \in Builders : SaveMeta(b)
    \/ \E b \in Builders : SaveVocab(b)

SpecBuilds == InitBuilds /\ [][NextBuilds]_vars

\* builder b's run of main() has ended
BuildFinished(b) == bpc[b] = "idle" /\ bout[b] # "none"

ModelClasses == {"DummyRegressor", "RandomForestRegressor"}

\* the "version" a caller puts in the metadata it passes, or none
Versions == {"v1.0.0", "v2.0.0", Absent}

\* how the two writes of save_model go
SaveOutcomes == {"ok", "model write fails", "metadata write fails"}

\* lines 79-86: the caller's metadata, or {}, updated with the three keys
SavedMeta(model, version) ==
    [version |-> version, saved_at |-> "now", model_type |-> model,
     model_path |-> "models/model.pkl"]

Call(op, model, version, ret, info) ==
    [op |-> op, model |-> model, version |-> version, ret |-> ret, info |-> info]

\* lines 138-151 and 153-174: fit an estimator and return it to the caller
CreateModel(op, cls) ==
    /\ mlocal' = cls
    /\ mprev' = mcall
    /\ mcall' = Call(op, cls, Absent, "model", NoInfo)
    /\ UNCHANGED <<corpus, files, bvars, qvars, fvars, tvars, avars, pvars, mgr, mdisk>>

create_dummy_model == CreateModel("create_dummy_model", "DummyRegressor")

create_random_forest_model == CreateModel("create_random_forest_model", "RandomForestRegressor")

\* lines 60-96 and 210-217, for a model the caller holds
save_model(version, outcome) ==
    /\ mlocal # None
    /\ mprev' = mcall
    /\ IF outcome = "model write fails"
       THEN /\ mcall' = Call("save_model", mlocal, version, "False", NoInfo)
            /\ UNCHANGED <<mgr, mdisk>>
       ELSE IF outcome = "metadata write fails"
       THEN /\ mcall' = Call("save_model", mlocal, version, "True", NoInfo)
            /\ mdisk' = [mdisk EXCEPT !.model = mlocal]
            /\ UNCHANGED mgr
       ELSE /\ mcall' = Call("save_model", mlocal, version, "True", NoInfo)
            /\ mdisk' = [model |-> mlocal,
                         metadata |-> [exists |-> TRUE, data |-> SavedMeta(mlocal, version)]]
            /\ mgr' = [mgr EXCEPT !.metadata = SavedMeta(mlocal, version)]
    /\ UNCHANGED <<corpus, files, bvars, qvars, fvars, tvars, avars, pvars, mlocal>>

\* lines 35-58 and 200-208
load_model ==
    /\ mprev' = mcall
    /\ IF mdisk.model = None
       THEN /\ mcall' = Call("load_model", None, Absent, "False", NoInfo)
            /\ UNCHANGED mgr
       ELSE /\ mcall' = Call("load_model", mdisk.model, Absent, "True", NoInfo)
            /\ mgr' = [model |-> mdisk.model,
                       metadata |-> IF mdisk.metadata.exists THEN mdisk.metadata.data
                                    ELSE mgr.metadata]
    /\ UNCHANGED <<corpus, files, bvars, qvars, fvars, tvars, avars, pvars, mdisk, mlocal>>

\* dict.get(key, "unknown") on the metadata
MetaGet(md, k) == IF md[k] = Absent THEN "unknown" ELSE md[k]

\* lines 116-136
ModelInfo(m) ==
    IF m.model = None
    THEN [model_loaded |-> FALSE, metadata |-> m.metadata, model_type |-> Absent,
          model_version |-> Absent, last_updated |-> Absent]
    ELSE [model_loaded |-> TRUE, metadata |-> m.metadata, model_type |-> m.model,
          model_version |-> MetaGet(m.metadata, "version"),
          last_updated |-> MetaGet(m.metadata, "saved_at")]

get_model_info ==
    /\ mprev' = mcall
    /\ mcall' = Call("get_model_info", None, Absent, "info", ModelInfo(mgr))
    /\ UNCHANGED <<corpus, files, bvars, qvars, fvars, tvars, avars, pvars, mgr, mdisk, mlocal>>

\* lines 176-198
evaluate_model ==
    /\ mprev' = mcall
    /\ mcall' = IF mgr.model = None
                THEN Call("evaluate_model", None, Absent, "ValueError: No model loaded", NoInfo)
                ELSE Call("evaluate_model", mgr.model, Absent, "metrics", NoInfo)
    /\ UNCHANGED <<corpus, files, bvars, qvars, fvars, tvars, avars, pvars, mgr, mdisk, mlocal>>

InitManager ==
    /\ corpus = <<>>
    /\ InitProcs
    /\ fnIn = NoFn
    /\ fnOut = NoResult
    /\ InitToolsIdle
    /\ InitAssistIdle
    /\ InitManagerIdle
    /\ InitPredictorIdle

NextManager ==
    \/ create_dummy_model
    \/ create_random_forest_model
    \/ \E version \in Versions, outcome \in SaveOutcomes : save_model(version, outcome)
    \/ load_model
    \/ get_model_info
    \/ evaluate_model

SpecManager == InitManager /\ [][NextManager]_vars

\* C19: get_model_info called right after a save_model(model, metadata) that
\* returned True reports model_loaded = True, model_type = the class of the
\* saved model and model_version = metadata["version"].
C19_InfoAfterSave ==
    (mcall.op = "get_model_info" /\ mprev.op = "save_model" /\ mprev.ret = "True"
        /\ mprev.version # Absent) =>
        /\ mcall.info.model_loaded
        /\ mcall.info.model_type = mprev.model
        /\ mcall.info.model_version = mprev.version

\* C20: evaluate_model called right after create_random_forest_model on the
\* same manager returns the metrics mse, rmse and r2.
C20_EvaluateAfterCreate ==
    (mcall.op = "evaluate_model" /\ mprev.op = "create_random_forest_model") =>
        mcall.ret = "metrics"

\* ------------------------------------------------- the steps of one assist

\* the artifact a call runs over: none, or the one a build over a one-line
\* log left
StepIndexes == {NoFiles} \cup {BuiltIndex(c) : c \in {d \in FreshLogs : Buildable(d)}}

\* assist() as the program runs it, from line 65 on (query q1), next to
\* lines 66-71 applied to an evidence list top_k_evidence could hand over
InitSteps ==
    /\ corpus = <<>>
    /\ files \in StepIndexes
    /\ fwriter = [n \in ArtifactNames |-> IF files[n] = NoFile THEN "nobody" ELSE "b1"]
    /\ bpc = [b \in Builders |-> "idle"]
    /\ bmem = [b \in Builders |-> NoBMem]
    /\ bout = [b \in Builders |-> "none"]
    /\ bsrc = [b \in Builders |-> <<>>]
    /\ qpc = [q \in Queriers |-> "idle"]
    /\ qarg = [q \in Queriers |-> NoArg]
    /\ qmem = [q \in Queriers |-> NoQMem]
    /\ qemb = [q \in Queriers |-> NoEmb]
    /\ qout = [q \in Queriers |-> "none"]
    /\ qseen = [q \in Queriers |-> {}]
    /\ qread = [q \in Queriers |-> {}]
    /\ qevid = [q \in Queriers |-> <<>>]
    /\ fnIn = NoFn
    /\ fnOut = NoResult
    /\ InitToolsIdle
    /\ InitManagerIdle
    /\ InitPredictorIdle
    /\ apc = "evidence"
    /\ ain \in AssistInputs
    /\ aprompt = <<>>
    /\ aproc = NoProc
    /\ acalls = 0
    /\ aout = NoAssistOut

NextSteps ==
    \/ \E query \in Queries, k \in Ks : StartQuery("q1", query, k)
    \/ LoadIndex("q1")
    \/ EmbedQuery("q1")
    \/ AssistPrompt
    \/ AssistCall

SpecSteps == InitSteps /\ [][NextSteps]_vars

\* C21: a call of assist goes through its steps in one order and never goes
\* back: from the load to the vectorizing and ranking or out, from there
\* out; from the evidence test to the prompt, from the prompt to the one run
\* of the generator, from there out.  The generator is run at most once, and
\* only in a step that holds a prompt built from a non-empty evidence list.
C21_LinearSteps ==
    /\ [](acalls <= 1)
    /\ [][/\ \A q \in Queriers :
                /\ qpc[q] = "idle" => qpc'[q] \in {"idle", "load"}
                /\ qpc[q] = "load" => qpc'[q] \in {"load", "embed", "idle"}
                /\ qpc[q] = "embed" => qpc'[q] \in {"embed", "idle"}
                /\ qemb'[q] # qemb[q] => (qpc[q] = "embed" \/ qpc'[q] = "load")
          /\ apc = "evidence" => apc' \in {"evidence", "call", "done"}
          /\ apc = "call" => apc' \in {"call", "done"}
          /\ apc = "done" => apc' = "done"
          /\ (apc = "evidence" /\ apc' = "done") => (ain.evidence = <<>> /\ acalls' = 0)
          /\ aprompt' # aprompt => (apc = "evidence" /\ apc' = "call")
          /\ acalls' # acalls =>
                /\ acalls' = acalls + 1
                /\ apc = "call" /\ apc' = "done"
                /\ ain.evidence # <<>>
                /\ aprompt = build_prompt(ain.evidence, ain.query)
                /\ aproc'.prompt = aprompt]_vars

\* the generator has run once and its answer was returned, and the call as
\* the program runs it has ended after its vectorizing step
C21_Witness ==
    /\ acalls = 1
    /\ apc = "done"
    /\ aout.returned /\ aout.key = "raw_text"
    /\ qpc["q1"] = "idle"
    /\ qread["q1"] = ArtifactNames
    /\ qout["q1"] # "none"

\* C22: every evidence item of lines 30-35 is made of one row i: its score is
\* the similarity of the query to vector row i, its text and meta are those
\* of metadata entry i, and no row gives two items.
C22_EvidencePairsOneRow ==
    (fnIn.fn = "top_k" /\ fnOut.done /\ fnOut.out = "evidence") =>
        LET ev == fnOut.evidence
        IN /\ \A n \in 1..Len(ev) :
                 \E i \in 1..Len(fnIn.arr) :
                    /\ ev[n].score = CosineSim(fnIn.qv, fnIn.arr[i])
                    /\ ev[n].text = fnIn.metas[i].text
                    /\ ev[n].meta = fnIn.metas[i].meta
           /\ \A m, n \in 1..Len(ev) : m # n => ev[m].text # ev[n].text

\* the second row ranked first, above the first row, with its own text and meta
C22_Witness ==
    /\ fnIn.fn = "top_k" /\ fnOut.done
    /\ Len(fnOut.evidence) = 2
    /\ fnOut.evidence[1].score > fnOut.evidence[2].score
    /\ fnOut.evidence[1].text = fnIn.metas[2].text
    /\ fnOut.evidence[1].meta = fnIn.metas[2].meta
    /\ fnOut.evidence[2].text = fnIn.metas[1].text

RECURSIVE BlockStart(_, _)
BlockStart(ev, n) == IF n = 1 THEN 2 ELSE BlockStart(ev, n - 1) + Len(ev[n - 1].text) + 4

\* C24: the prompt is the head of the template, then one block
\* "[EVID_<i>] <text>" and a newline per evidence item, in evidence order and
\* numbered consecutively from 0, then the QUESTION heading, the question
\* unchanged, and the tail of the template; nothing else.
C24_PromptBlocks ==
    apc \in {"call", "done"} /\ ain.evidence # <<>> =>
        LET ev == ain.evidence
            n == Len(ev)
            stop == BlockStart(ev, n) + Len(ev[n].text) + 4
        IN /\ aprompt[1] = PromptHead
           /\ \A m \in 1..n :
                 SubSeq(aprompt, BlockStart(ev, m), BlockStart(ev, m) + Len(ev[m].text) + 3)
                     = <<"[EVID_", ToString(m - 1), "] ">> \o ev[m].text \o <<"\n">>
           /\ Len(aprompt) = stop + Len(ain.query) + 1
           /\ aprompt[stop] = PromptMid
           /\ SubSeq(aprompt, stop + 1, stop + Len(ain.query)) = ain.query
           /\ aprompt[Len(aprompt)] = PromptTail

\* a prompt built over two different evidence items
C24_Witness ==
    /\ apc = "call"
    /\ Len(ain.evidence) = 2
    /\ ain.evidence[1].text # ain.evidence[2].text
    /\ \E p \in 1..Len(aprompt) : aprompt[p] = "[EVID_" /\ aprompt[p + 1] = "1"

\* ------------------------------------------------------ one build after another

\* python index_logs.py started when no other build runs
SerialBuild(b) ==
    /\ \A c \in Builders : bpc[c] = "idle"
    /\ FirstBuild(b)

\* two runs of index_logs.py, the second after the first has ended or was
\* killed, the log changing in between
NextRebuilds ==
    \/ \E c \in FreshLogs : LogChanges(c)
    \/ \E b \in Builders : SerialBuild(b)
    \/ \E b \in Builders : SaveEmb(b)
    \/ \E b \in Builders : SaveMeta(b)
    \/ \E b \in Builders : SaveVocab(b)
    \/ \E b \in Builders : KillBuild(b)

SpecRebuilds == InitBuilds /\ [][NextRebuilds]_vars

\* C25: the step that completes a build leaves, in all three artifact files,
\* exactly what a build over the corpus it read produces: no row, metadata
\* entry or vocabulary term of an earlier build, completed or killed, stays.
C25_BuildReplacesArtifact ==
    [][\A b \in Builders :
          (bpc[b] = "save_vocab" /\ bout'[b] = "saved") => files' = BuiltIndex(bsrc'[b])]_vars

\* two builds completed one after the other over corpora whose artifacts
\* differ in every file; the files are those of the later build
C25_Witness ==
    /\ bout["b1"] = "saved" /\ bout["b2"] = "saved"
    /\ \A n \in ArtifactNames : BuiltIndex(bsrc["b1"])[n] # BuiltIndex(bsrc["b2"])[n]
    /\ fwriter.vocab = "b2"
    /\ files = BuiltIndex(bsrc["b2"])

InitFirstBuild ==
    /\ corpus \in Corpora
    /\ InitProcs
    /\ fnIn = NoFn
    /\ fnOut = NoResult
    /\ InitToolsIdle
    /\ InitAssistIdle
    /\ InitManagerIdle
    /\ InitPredictorIdle

\* the first run of index_logs.py in a directory with no artifact file,
\* killed or not, and calls of assist() at any time
NextFirstBuild ==
    \/ FirstBuild("b1")
    \/ SaveEmb("b1")
    \/ SaveMeta("b1")
    \/ SaveVocab("b1")
    \/ KillBuild("b1")
    \/ \E query \in Queries, k \in Ks : StartQuery("q1", query, k)
    \/ LoadIndex("q1")
    \/ EmbedQuery("q1")

SpecFirstBuild == InitFirstBuild /\ [][NextFirstBuild]_vars

\* C27: from a directory with no artifact file, as long as the first build
\* has not made its last write (it runs, was killed, or wrote nothing), the
\* vocabulary file does not exist and every query whose load has ended has
\* ended with the "Index files missing" error, having loaded nothing.
C27_InterruptedFirstBuildNotLoadable ==
    bout["b1"] # "saved" =>
        /\ files.vocab = NoFile
        /\ \A q \in Queriers :
              (qpc[q] # "load" /\ qout[q] # "none") =>
                  /\ qout[q] = "FileNotFoundError: Index files missing"
                  /\ qpc[q] = "idle"
                  /\ qread[q] = {}
                  /\ qmem[q] = NoQMem

\* the build was killed after writing the matrix and the metadata, and a
\* query made after that failed fast
C27_Witness ==
    /\ bout["b1"] = "killed"
    /\ files.emb # NoFile /\ files.meta # NoFile
    /\ qseen["q1"] = {"emb", "meta"}
    /\ qout["q1"] = "FileNotFoundError: Index files missing"

RunLoadLogs ==
    /\ ~fnOut.done
    /\ fnIn' = [NoFn EXCEPT !.fn = "load_logs", !.f = corpus]
    /\ fnOut' = [done |-> TRUE, items |-> load_logs(corpus), out |-> "returned", evidence |-> <<>>]
    /\ UNCHANGED <<corpus, files, bvars, qvars, xvars>>

\* check_logs.py and load_logs run on one corpus file, in either order
NextAuditLoad == RunCheckLogs \/ RunLoadLogs

SpecAuditLoad == InitAudit /\ [][NextAuditLoad]_vars

\* both tools have been run on the file
AuditAndLoadDone == report.done /\ fnOut.done /\ fnIn.fn = "load_logs"

\* the line numbers (from 1) the audit reported OK
OkLines == {i \in 1..Len(report.lines) : report.lines[i].status = "OK"}

\* the line numbers (from 1) the loader made a record of
LoadedLines == {i \in 1..Len(corpus) :
                   \E n \in 1..Len(fnOut.items) : fnOut.items[n].id = <<"log_", i - 1>>}

PklPath == "models/model.pkl"
PtPath == "models/pytorch_model.pt"
UpPklPath == "../../models/model.pkl"
ModelPaths == {PklPath, PtPath, UpPklPath}

\* str.endswith('.pt') / str.endswith('.pkl') on these paths
EndsWithPt(path) == path = PtPath
EndsWithPkl(path) == path \in {PklPath, UpPklPath}

\* what the constructor is called with
PathArgs == {None} \cup ModelPaths
ModelTypes == {"auto", "sklearn", "pytorch", "llm"}

\* the model a manager's load_model leaves in self.model
LoadedModel == "model"

\* ModelManager(path) or PyTorchModelManager(path) followed by load_model():
\* the model is read when the file exists and holds a model of the manager's
\* kind (a pickle for "sklearn", a checkpoint for "pytorch"); otherwise
\* load_model returns False and self.model stays None
LoadedManager(kind, path, disk) ==
    LET fits == IF kind = "sklearn" THEN EndsWithPkl(path) ELSE EndsWithPt(path)
    IN [kind |-> kind, model_path |-> path,
        model |-> IF path \in disk /\ fits THEN LoadedModel ELSE None]

\* lines 90-106
try_load_both(p, disk) ==
    LET sk == LoadedManager("sklearn", PklPath, disk)
        pt == LoadedManager("pytorch", PtPath, disk)
    IN IF sk.model # None
       THEN [p EXCEPT !.sklearn_manager = sk, !.active_manager = sk, !.model_type = "sklearn"]
       ELSE IF pt.model # None
       THEN [p EXCEPT !.sklearn_manager = sk, !.pytorch_manager = pt,
                      !.active_manager = pt, !.model_type = "pytorch"]
       ELSE [p EXCEPT !.sklearn_manager = sk, !.pytorch_manager = pt]

\* lines 77-87: a new manager replaces the old one of its kind;
\* active_manager is assigned only when the load succeeded
LoadTyped(p, model_path, disk) ==
    IF p.model_type = "sklearn"
    THEN LET m == LoadedManager("sklearn", IF model_path # None THEN model_path ELSE PklPath, disk)
         IN [p EXCEPT !.sklearn_manager = m,
                      !.active_manager = IF m.model # None THEN m ELSE @]
    ELSE IF p.model_type = "pytorch"
    THEN LET m == LoadedManager("pytorch", IF model_path # None THEN model_path ELSE PtPath, disk)
         IN [p EXCEPT !.pytorch_manager = m,
                      !.active_manager = IF m.model # None THEN m ELSE @]
    ELSE p

\* lines 64-87: _load_model
LoadModel(p, model_path, disk) ==
    IF p.model_type = "auto"
    THEN IF model_path # None /\ EndsWithPt(model_path)
         THEN LoadTyped([p EXCEPT !.model_type = "pytorch"], model_path, disk)
         ELSE IF model_path # None /\ EndsWithPkl(model_path)
         THEN LoadTyped([p EXCEPT !.model_type = "sklearn"], model_path, disk)
         ELSE try_load_both(p, disk)
    ELSE LoadTyped(p, model_path, disk)

\* lines 36-43: the paths the constructor searches, in order, and the type
\* each stands for (of the six, those of the three model files)
possible_paths == <<[path |-> PklPath, mtype |-> "sklearn"],
                    [path |-> PtPath, mtype |-> "pytorch"],
                    [path |-> UpPklPath, mtype |-> "sklearn"]>>

\* lines 18-62: __init__
NewPredictor(model_path, model_type, disk) ==
    LET p0 == [made |-> TRUE, model_type |-> model_type, sklearn_manager |-> NoManager,
               pytorch_manager |-> NoManager, active_manager |-> NoManager]
        found == {n \in 1..Len(possible_paths) : possible_paths[n].path \in disk}
        first == CHOOSE n \in found : \A m \in found : n <= m
    IN IF model_path # None THEN LoadModel(p0, model_path, disk)
       ELSE IF found = {} THEN LoadModel(p0, None, disk)
       ELSE LoadModel([p0 EXCEPT !.model_type = IF model_type = "auto"
                                                 THEN possible_paths[first].mtype ELSE @],
                      possible_paths[first].path, disk)

\* lines 158-160
is_model_loaded(p) == p.active_manager # NoManager

\* lines 107-132: how predict(features) ends
predict(p) ==
    IF p.active_manager = NoManager THEN "ValueError: No model loaded"
    ELSE IF p.model_type = "sklearn"
         THEN IF p.sklearn_manager.model = None
              THEN "AttributeError: 'NoneType' object has no attribute 'predict'"
              ELSE "prediction"
    ELSE IF p.model_type = "pytorch"
         THEN IF p.pytorch_manager.model = None
              THEN "ValueError: No model loaded"
              ELSE "prediction"
    ELSE "ValueError: Unknown model type"

\* a model file appears or disappears
PutModelFile(path) ==
    /\ path \notin pfiles
    /\ pfiles' = pfiles \cup {path}
    /\ UNCHANGED <<corpus, files, bvars, qvars, fvars, tvars, avars, mvars, pred, pcall>>

RemoveModelFile(path) ==
    /\ path \in pfiles
    /\ pfiles' = pfiles \ {path}
    /\ UNCHANGED <<corpus, files, bvars, qvars, fvars, tvars, avars, mvars, pred, pcall>>

\* UnifiedPredictor(model_path, model_type)
Construct(model_path, model_type) ==
    /\ ~pred.made
    /\ pred' = NewPredictor(model_path, model_type, pfiles)
    /\ pcall' = [op |-> "__init__", ret |-> is_model_loaded(pred'), out |-> "constructed"]
    /\ UNCHANGED <<corpus, files, bvars, qvars, fvars, tvars, avars, mvars, pfiles>>

\* POST /model/reload (endpoints.py lines 146-177) around reload_model
\* (lines 198-201)
post_model_reload ==
    /\ pred.made
    /\ pred' = LoadModel(pred, None, pfiles)
    /\ pcall' = [op |-> "reload_model", ret |-> is_model_loaded(pred'),
                 out |-> IF is_model_loaded(pred') THEN "success" ELSE "500"]
    /\ UNCHANGED <<corpus, files, bvars, qvars, fvars, tvars, avars, mvars, pfiles>>

\* predict(features)
Predict ==
    /\ pred.made
    /\ pcall' = [op |-> "predict", ret |-> predict(pred) = "prediction", out |-> predict(pred)]
    /\ UNCHANGED <<corpus, files, bvars, qvars, fvars, tvars, avars, mvars, pfiles, pred>>

InitPredictor ==
    /\ corpus = <<>>
    /\ InitProcs
    /\ fnIn = NoFn
    /\ fnOut = NoResult
    /\ InitToolsIdle
    /\ InitAssistIdle
    /\ InitManagerIdle
    /\ pfiles \in SUBSET ModelPaths
    /\ pred = NoPredictor
    /\ pcall = NoPredCall

NextPredictor ==
    \/ \E path \in ModelPaths : PutModelFile(path)
    \/ \E path \in ModelPaths : RemoveModelFile(path)
    \/ \E model_path \in PathArgs, model_type \in ModelTypes : Construct(model_path, model_type)
    \/ post_model_reload
    \/ Predict

SpecPredictor == InitPredictor /\ [][NextPredictor]_vars

\* the manager predict takes its model from
ServingManager(p) ==
    IF p.model_type = "sklearn" THEN p.sklearn_manager
    ELSE IF p.model_type = "pytorch" THEN p.pytorch_manager
    ELSE NoManager

\* C30: whenever is_model_loaded() is True, the manager predict reads its
\* model from holds a loaded model; a reload reported as a success leaves a
\* predictor whose predict returns a prediction.
C30_LoadedMeansServable ==
    /\ (pred.made /\ is_model_loaded(pred)) => ServingManager(pred).model # None
    /\ (pcall.op = "reload_model" /\ pcall.out = "success") => predict(pred) = "prediction"

====
